---- MODULE Spec2Model ----
(***************************************************************************)
(* Model of the scraping-final harvesting pipeline:                        *)
(*   - src/src/data/database.py   : the SQLite job/product store           *)
(*   - src/src/data/models.py     : the ScrapingJob lifecycle object       *)
(*   - the adapters' record extraction and the orchestrator paths that     *)
(*     carry adapter results into the store (main.py and the two Amazon    *)
(*     runners)                                                            *)
(*                                                                         *)
(* The specifications share the variables:                                 *)
(*   SpecStore : any sequence of calls of the Database API                 *)
(*   SpecJob   : any sequence of calls of the ScrapingJob methods          *)
(*   SpecRun   : the orchestrator paths, one harvesting run at a time      *)
(*   SpecStatic: one StaticScraper.scrape() call under any configuration   *)
(*   SpecEbay  : consecutive scrape() calls on one EbayScraper             *)
(*   SpecPool  : the worker pools of main.py and of the static adapter     *)
(*   SpecLog   : the loggers of the pool workers and the log queue         *)
(*   SpecCrawl : consecutive run_scraper() calls of scrapy_crawler's       *)
(*               AmazonScrapyRunner in one process (SpecCrawlFair: with    *)
(*               the engine running while a crawl is on)                   *)
(***************************************************************************)
EXTENDS Integers, Sequences, FiniteSets, TLC

VARIABLES
    jobs,       \* rows of table jobs, in insertion order
    products,   \* rows of table products, in insertion order
    clock,      \* the value datetime.utcnow() / CURRENT_TIMESTAMP returns
    ret,        \* the value the last Database call returned (NULL for None)
    sjob,       \* one ScrapingJob object
    offered,    \* history: per link, the first row insert_products was handed,
                \* and whether a record with that link was handed over again
    run,        \* the harvesting runs: kind, position, local variables
    main,       \* the run the orchestrator's main thread is executing (0: none)
    SCRAPED_ITEMS,  \* the module-level lists of amazon_spider.py (crawl) and
                    \* scrapy_amazon_scraper.py (simple)
    tempFile,   \* temp_scraped_items.json: Absent, or the list it holds
    static,     \* one StaticScraper.scrape() call: its config, the pages the
                \* pool has mapped so far, what it returned
    ebay,       \* one EbayScraper instance over consecutive scrape() calls: its
                \* driver, the browser sessions alive, the page loop
    pool,       \* one worker pool (main.py's ProcessPoolExecutor or the static
                \* adapter's multiprocessing.Pool): its processes and tasks
    logging,    \* the loggers of the pool's worker processes, the shared
                \* log_queue, and who has written to which log file
    crawler     \* one process using scrapy_crawler's AmazonScrapyRunner: the
                \* reactor, the scheduler's requests, the temp file, the results

\* ---------------------------------------------------------------- bounds
MaxJobs  == 2   \* queue_job is called at most this many times
MaxRows  == 2   \* insert_products is called only while the table stays this short
MaxBatch == 2   \* longest batch handed to insert_products
MaxClock == 2   \* the clock stops advancing here
MaxCount == 1   \* largest products_count handed to ScrapingJob.complete
NumRuns  == 2   \* harvesting runs the orchestrator performs
MaxPages == 2   \* pages (responses) one run fetches
MaxItems == 1   \* result containers on one page
MaxStaticPages == 2   \* largest max_pages of a static configuration
MaxContainers  == 2   \* containers on one page of the static site
MaxScrapes     == 2   \* scrape() / run_scraper() calls on one adapter instance
MaxCpu         == 5   \* largest multiprocessing.cpu_count()
MaxPoolTasks   == 5   \* most pages handed to the static pool
MaxLogQueue    == 2   \* log records waiting on log_queue

\* ------------------------------------------------------- values and rows
None == "<None>"          \* Python None / SQL NULL in a text column
NULL == 0                 \* SQL NULL / Python None in a timestamp or id column

Terms  == {"q1", "q2"}
Links  == {"https://www.amazon.com/p1", "https://www.ebay.com/p1",
           "http://books.toscrape.com/p1"}

\* A price as the adapters hand it over: None, a float, or a string.
NoPrice    == [t |-> "none", v |-> 0, s |-> <<>>]
Num(n)     == [t |-> "num",  v |-> n, s |-> <<>>]
Str(chars) == [t |-> "str",  v |-> 0, s |-> chars]

Digits == {"0", "1", "2", "3", "4", "5", "6", "7", "8", "9"}

DigitVal(c) ==
    CASE c = "0" -> 0 [] c = "1" -> 1 [] c = "2" -> 2 [] c = "3" -> 3
      [] c = "4" -> 4 [] c = "5" -> 5 [] c = "6" -> 6 [] c = "7" -> 7
      [] c = "8" -> 8 [] c = "9" -> 9

\* str.replace('$', '').replace(',', '') on a string of characters
RECURSIVE StripDollarComma(_)
StripDollarComma(chars) ==
    IF chars = <<>> THEN <<>>
    ELSE IF Head(chars) \in {"$", ","} THEN StripDollarComma(Tail(chars))
    ELSE <<Head(chars)>> \o StripDollarComma(Tail(chars))

\* float() of a string of decimal digits
RECURSIVE DigitsValue(_, _)
DigitsValue(chars, acc) ==
    IF chars = <<>> THEN acc
    ELSE DigitsValue(Tail(chars), 10 * acc + DigitVal(Head(chars)))

\* Database._parse_price: None stays None, a number passes through, a string
\* loses '$' and ',' and is handed to float(); what float() rejects is None.
\* (The strings of the model carry no '.', sign or exponent.)
ParsePrice(p) ==
    IF p.t = "none" THEN NoPrice
    ELSE IF p.t = "num" THEN Num(p.v)
    ELSE LET cleaned == StripDollarComma(p.s)
         IN  IF cleaned # <<>> /\ \A i \in 1..Len(cleaned) : cleaned[i] \in Digits
             THEN Num(DigitsValue(cleaned, 0))
             ELSE NoPrice

\* A product dict as an adapter or caller hands it to insert_products;
\* a missing key and a None value both read as None through dict.get.
Rec(name, price, link, term, source) ==
    [name |-> name, price |-> price, link |-> link,
     search_term |-> term, source |-> source]

\* The tuple insert_products binds for one product dict.
ToRow(p, job_id) ==
    [name |-> p.name, price |-> ParsePrice(p.price), link |-> p.link,
     search_term |-> p.search_term, source |-> p.source, job_id |-> job_id]

\* INSERT OR REPLACE: a colliding link overwrites the stored row.
InsertOrReplace(rows, p, job_id) ==
    IF p.link # None /\ \E i \in 1..Len(rows) : rows[i].link = p.link
    THEN [i \in 1..Len(rows) |->
            IF rows[i].link = p.link THEN ToRow(p, job_id) ELSE rows[i]]
    ELSE Append(rows, ToRow(p, job_id))

\* INSERT OR IGNORE under link TEXT UNIQUE: a row whose non-NULL link is
\* already stored is dropped; NULL links never collide (SQL NULL <> NULL).
InsertOrIgnore(rows, p, job_id) ==
    IF p.link # None /\ \E i \in 1..Len(rows) : rows[i].link = p.link
    THEN rows
    ELSE Append(rows, ToRow(p, job_id))

\* executemany: the statement is run for each product of the batch in order.
RECURSIVE ExecuteMany(_, _, _)
ExecuteMany(rows, batch, job_id) ==
    IF batch = <<>> THEN rows
    ELSE ExecuteMany(InsertOrIgnore(rows, Head(batch), job_id), Tail(batch), job_id)

\* AUTOINCREMENT always reuses the first id.
NextJobIdReuse(js) == 1

\* AUTOINCREMENT: one more than the largest job_id ever used (no row is deleted).
NextJobId(js) == Len(js) + 1

JobIds(js) == {js[i].job_id : i \in 1..Len(js)}

\* INSERT INTO jobs (search_term) VALUES (?): status defaults to 'pending',
\* created_at to CURRENT_TIMESTAMP, completed_at to NULL.
InsertJob(js, term, now) ==
    Append(js, [job_id |-> NextJobId(js), search_term |-> term,
                status |-> "pending", created_at |-> now, completed_at |-> NULL])

\* the UPDATE without its WHERE clause: every row is completed
UpdateAllJobsCompleted(js, job_id, now) ==
    [i \in 1..Len(js) |-> [js[i] EXCEPT !.status = "completed", !.completed_at = now]]

\* UPDATE jobs SET status = 'completed', completed_at = ? WHERE job_id = ?
UpdateJobCompleted(js, job_id, now) ==
    [i \in 1..Len(js) |->
        IF js[i].job_id = job_id
        THEN [js[i] EXCEPT !.status = "completed", !.completed_at = now]
        ELSE js[i]]

\* History of the records insert_products has bound so far, per non-NULL link.
NoRow == [name |-> None, price |-> NoPrice, link |-> None,
          search_term |-> None, source |-> None, job_id |-> NULL]

NoteOffer(h, p, job_id) ==
    IF p.link = None THEN h
    ELSE IF h.first[p.link] = NoRow
         THEN [h EXCEPT !.first[p.link] = ToRow(p, job_id)]
         ELSE [h EXCEPT !.again[p.link] = TRUE]

RECURSIVE NoteBatch(_, _, _)
NoteBatch(h, batch, job_id) ==
    IF batch = <<>> THEN h
    ELSE NoteBatch(NoteOffer(h, Head(batch), job_id), Tail(batch), job_id)

\* ------------------------------------------------ inputs of the store API
SampleRecords ==
    { Rec("Widget", Str(<<"$", "5">>),       "https://www.ebay.com/p1", "q1", "eBay"),
      Rec("Gadget", Num(7),                  "https://www.ebay.com/p1", "q2", "Amazon"),
      Rec("Widget", NoPrice,                 None, "q1", "Amazon") }

Batches == UNION {[1..n -> SampleRecords] : n \in 0..MaxBatch}

\* ------------------------------------------------------- record extraction
\* What the selectors find in one result container: the title text, the price
\* text and the href of the link, each None/NoPrice when the element is missing.
SampleContainers ==
    { [name |-> "Widget", price |-> Str(<<"$", "5">>),      link |-> "/p1"],
      [name |-> "Gadget", price |-> NoPrice,                link |-> None],
      [name |-> None,     price |-> Str(<<"$", "5">>),      link |-> "/p1"],
      [name |-> "Gadget", price |-> Str(<<"n", "/", "a">>), link |-> None] }

\* urljoin / the browser's href resolution / the spider's prefixing of a
\* relative href with the site origin.
AbsoluteLink(site, href) ==
    IF href = None THEN None
    ELSE IF href = "/p1"
         THEN CASE site = "amazon" -> "https://www.amazon.com/p1"
                [] site = "ebay"   -> "https://www.ebay.com/p1"
                [] site = "books"  -> "http://books.toscrape.com/p1"
         ELSE href

\* re.sub(r'[^\d.]', '', text)
RECURSIVE KeepDigits(_)
KeepDigits(chars) ==
    IF chars = <<>> THEN <<>>
    ELSE IF Head(chars) \in Digits THEN <<Head(chars)>> \o KeepDigits(Tail(chars))
    ELSE KeepDigits(Tail(chars))

\* helpers.sanitize_price: the digits as a float, 0.0 when there are none
SanitizePrice(p) ==
    IF KeepDigits(p.s) = <<>> THEN Num(0) ELSE Num(DigitsValue(KeepDigits(p.s), 0))

\* AmazonProductSpider.parse_price: None for no text or no digits
SpiderParsePrice(p) ==
    IF p.t = "none" \/ p.s = <<>> THEN NoPrice
    ELSE IF KeepDigits(p.s) = <<>> THEN NoPrice
    ELSE Num(DigitsValue(KeepDigits(p.s), 0))

\* a record is returned as soon as the container has a name
ExtractDataStaticNameOnly(item) ==
    IF item.name # None
    THEN <<Rec(item.name,
               IF item.price = NoPrice THEN NoPrice ELSE SanitizePrice(item.price),
               AbsoluteLink("books", item.link), None, None)>>
    ELSE <<>>

\* static_scraper.extract_data_static followed by the caller's `if data`:
\* the records of one container (none unless it has a name and a link)
ExtractDataStatic(item) ==
    IF item.name # None /\ item.link # None
    THEN <<Rec(item.name,
               IF item.price = NoPrice THEN NoPrice ELSE SanitizePrice(item.price),
               AbsoluteLink("books", item.link), None, None)>>
    ELSE <<>>

\* EbayScraper._extract_item_data
ExtractItemData(item) ==
    IF item.name = None \/ item.name \in {"New Listing", "Shop on eBay"} THEN <<>>
    ELSE IF item.link = None THEN <<>>
    ELSE <<Rec(item.name, item.price, AbsoluteLink("ebay", item.link), None, None)>>

\* AmazonProductSpider.extract_single_product_enhanced (scrapy_crawler):
\* a title is enough; price and link may both be None
ExtractSingleProductEnhanced(item, search_term) ==
    IF item.name # None
    THEN <<Rec(item.name,
               IF item.price = NoPrice THEN NoPrice ELSE SpiderParsePrice(item.price),
               AbsoluteLink("amazon", item.link), search_term, "Amazon")>>
    ELSE <<>>

\* AmazonProductSpider.extract_single_product (scrapy_amazon_scraper.py):
\* a title and a price text are needed; the item has no source key
ExtractSingleProduct(item, search_term) ==
    IF item.name # None /\ item.price # NoPrice
    THEN <<Rec(item.name, SpiderParsePrice(item.price),
               AbsoluteLink("amazon", item.link), search_term, None)>>
    ELSE <<>>

\* Product.is_valid: bool(name and (link or price)), by Python truthiness
IsValid(p) ==
    /\ p.name \notin {None, ""}
    /\ \/ p.link \notin {None, ""}
       \/ (p.price.t = "num" /\ p.price.v # 0)
       \/ (p.price.t = "str" /\ p.price.s # <<>>)

\* the records of the containers of one page, in container order
RECURSIVE ExtractAll(_, _, _)
ExtractAll(kind, items, search_term) ==
    IF items = <<>> THEN <<>>
    ELSE (CASE kind = "static" -> ExtractDataStatic(Head(items))
            [] kind = "ebay"   -> ExtractItemData(Head(items))
            [] kind = "crawl"  -> ExtractSingleProductEnhanced(Head(items), search_term)
            [] kind = "simple" -> ExtractSingleProduct(Head(items), search_term))
         \o ExtractAll(kind, Tail(items), search_term)

\* the caller's tagging loop: r['source'] = ...; r['search_term'] = ...
RECURSIVE Tag(_, _, _)
Tag(records, source, search_term) ==
    IF records = <<>> THEN <<>>
    ELSE <<[Head(records) EXCEPT !.source = source, !.search_term = search_term]>>
         \o Tag(Tail(records), source, search_term)

\* One fetched page: how the fetch ended and the containers it shows.
\*   "ok"      the page loaded
\*   "timeout" the wait for the results container timed out (browser adapter)
\*   "error"   the request or the page handling raised
\*   blocked   the body contains one of the blocking patterns
ContainerLists == UNION {[1..n -> SampleContainers] : n \in 0..MaxItems}

Pages ==
    [outcome : {"ok"}, blocked : BOOLEAN, items : ContainerLists]
    \cup [outcome : {"timeout", "error"}, blocked : {FALSE}, items : {<<>>}]

\* AmazonScrapyRunner.run_scraper (scrapy_crawler): the dicts built for the
\* database from the items read back; every key of an item is present, so the
\* defaults of item.get never apply
RECURSIVE ProductsForDb(_)
ProductsForDb(items) ==
    IF items = <<>> THEN <<>>
    ELSE <<Rec(Head(items).name, Head(items).price, Head(items).link,
               Head(items).search_term, Head(items).source)>>
         \o ProductsForDb(Tail(items))

Absent == [exists |-> FALSE, items |-> <<>>]
File(items) == [exists |-> TRUE, items |-> items]

RunIds == 1..NumRuns

\* the query of run r: the orchestrators submit one run per search term
TermOf(r) == CASE r = 1 -> "q1" [] r = 2 -> "q2" [] OTHER -> "q3"

\* run identifiers are handed out in order
NextToStart(r) == IF r = 1 THEN TRUE ELSE run[r - 1].pc # "idle"

IdleRun == [kind |-> "none", pc |-> "idle", term |-> None, job_id |-> NULL,
            pages |-> 0, yielded |-> <<>>, results |-> <<>>, committed |-> FALSE,
            blockLogged |-> FALSE, atBlock |-> 0, timedOut |-> FALSE]

\* EbayScraper.__init__: driver = None; no browser session exists yet.
\* slept: time.sleep has run since the last driver.get of the current scrape()
\* call (or since its start); undelayed: the driver.get calls of the current
\* call that no time.sleep preceded
NewEbayScraper == [pc |-> "idle", driver |-> NULL, live |-> {}, opened |-> 0,
                   calls |-> 0, term |-> None, max_pages |-> 0, page_num |-> 0,
                   results |-> <<>>, exit |-> None, returned |-> <<>>,
                   slept |-> FALSE, undelayed |-> 0]

\* a StaticScraper whose scrape() has not been called
IdleStatic == [pc |-> "idle", config |-> [selectors |-> [present |-> FALSE, keys |-> {}],
                                          max_pages |-> 0],
               results |-> <<>>, requests |-> 0, scraped_data |-> <<>>]

\* no pool exists: before the `with` statement is entered and after it is left
NoPool == [kind |-> "none", processes |-> 0, cpu_count |-> 0, tasks |-> 0,
           taken |-> 0, workers |-> <<>>, done |-> {}, raised |-> {}]

\* logging.getLogger(name) for a name not used before in the process
NewLogger == [handlers |-> {}, propagate |-> TRUE]

\* a pool process that has not run a task yet
NewWorker == [pc |-> "idle", root |-> NewLogger, logger |-> NewLogger]

LogFiles == {"logs/main.log", "../logs/ebay_scraper.log"}

\* main() has started the listener; nothing has been logged yet
NoRecords == [workers |-> [w \in 1..NumRuns |-> NewWorker],
              log_queue |-> <<>>,
              files |-> [f \in LogFiles |-> [listener |-> FALSE, workers |-> {}]]]

\* AmazonScrapyRunner() in a fresh process: the reactor has not run, and no
\* temp file exists
NewRunner == [pc |-> "idle", reactor |-> "unused", calls |-> 0,
              search_terms |-> <<>>, max_pages |-> 0, job_id |-> NULL,
              pending |-> {}, seen |-> {}, sent |-> 0, abandoned |-> 0,
              emitted |-> <<>>,
              items_file |-> Absent, engine_ran |-> FALSE,
              scraped_items |-> <<>>, inserted |-> <<>>, exit |-> None,
              returned |-> <<>>]

\* the adapters' own state, which no orchestrator or store step touches
adapterVars == <<static, ebay, pool, logging, crawler>>

runVars == <<run, main, SCRAPED_ITEMS, tempFile, adapterVars>>

\* ------------------------------------------------------------ Database API
\* Database.__init__ / _create_tables on a fresh file, and a fresh ScrapingJob.
Init ==
    /\ jobs = <<>>
    /\ products = <<>>
    /\ clock = 1
    /\ ret = NULL
    /\ sjob = [status |-> "pending", created_at |-> 1, started_at |-> NULL,
               completed_at |-> NULL, error_message |-> None,
               successful_products |-> 0, total_products |-> 0]
    /\ offered = [first |-> [l \in Links |-> NoRow], again |-> [l \in Links |-> FALSE]]
    /\ run = [r \in RunIds |-> IdleRun]
    /\ main = 0
    /\ SCRAPED_ITEMS = [crawl |-> <<>>, simple |-> <<>>]
    /\ tempFile = Absent
    /\ static = IdleStatic
    /\ ebay = NewEbayScraper
    /\ pool = NoPool
    /\ logging = NoRecords
    /\ crawler = NewRunner

\* Time passes between two calls.
Tick ==
    /\ clock < MaxClock
    /\ clock' = clock + 1
    /\ UNCHANGED <<jobs, products, ret, sjob, offered, runVars>>

\* Database.queue_job
QueueJob(term) ==
    /\ Len(jobs) < MaxJobs
    /\ jobs' = InsertJob(jobs, term, clock)
    /\ ret' = NextJobId(jobs)
    /\ UNCHANGED <<products, clock, sjob, offered, runVars>>

\* Database.mark_job_complete
MarkJobComplete(job_id) ==
    /\ jobs' = UpdateJobCompleted(jobs, job_id, clock)
    /\ ret' = NULL
    /\ UNCHANGED <<products, clock, sjob, offered, runVars>>

\* Database.insert_products
InsertProducts(batch, job_id) ==
    /\ Len(ExecuteMany(products, batch, job_id)) <= MaxRows
    /\ products' = ExecuteMany(products, batch, job_id)
    /\ offered' = NoteBatch(offered, batch, job_id)
    /\ ret' = NULL
    /\ UNCHANGED <<jobs, clock, sjob, runVars>>

\* ------------------------------------------------------- ScrapingJob methods
\* ScrapingJob.start
Start ==
    /\ sjob' = [sjob EXCEPT !.status = "running", !.started_at = clock]
    /\ UNCHANGED <<jobs, products, clock, ret, offered, runVars>>

\* ScrapingJob.complete
Complete(products_count) ==
    /\ sjob' = [sjob EXCEPT !.status = "completed", !.completed_at = clock,
                            !.successful_products = products_count,
                            !.total_products = products_count]
    /\ UNCHANGED <<jobs, products, clock, ret, offered, runVars>>

\* ScrapingJob.fail
Fail(error_message) ==
    /\ sjob' = [sjob EXCEPT !.status = "failed", !.completed_at = clock,
                            !.error_message = error_message]
    /\ UNCHANGED <<jobs, products, clock, ret, offered, runVars>>

FailureReasons == {"blocked", "timeout"}

NextJob ==
    \/ Tick
    \/ Start
    \/ \E products_count \in 0..MaxCount : Complete(products_count)
    \/ \E error_message \in FailureReasons : Fail(error_message)
    \/ \E term \in Terms : QueueJob(term)
    \/ \E job_id \in 1..MaxJobs : MarkJobComplete(job_id)

\* --------------------------------------------------------- orchestrator runs
\* The orchestrator's main thread executes one run's steps at a time; only the
\* browser workers of the process pool scrape beside it.  An insert_products
\* call either commits the whole batch (ok) or raises a storage error and
\* commits nothing.
storeFrame == <<clock, sjob, adapterVars>>

Step(r, pc) == [run EXCEPT ![r].pc = pc]

\* main.py: static_scraper = StaticScraper(static_config); scrape() begins
MainStaticStart(r) ==
    /\ main = 0
    /\ run[r].pc = "idle"
    /\ NextToStart(r)
    /\ run' = [run EXCEPT ![r] =
                 [@ EXCEPT !.kind = "static", !.pc = "scraping", !.term = TermOf(r)]]
    /\ main' = r
    /\ UNCHANGED <<jobs, products, ret, offered, SCRAPED_ITEMS, tempFile, storeFrame>>

\* static_scraper.scrape_page_worker for the next page of the range (pool.map
\* returns the pages' lists in page order): the records of the page, or [] when
\* the request or the parsing raised
ScrapePageWorker(r, page) ==
    /\ run[r].kind = "static"
    /\ run[r].pc = "scraping"
    /\ run[r].pages < MaxPages
    /\ run' = [run EXCEPT ![r] =
                 [@ EXCEPT !.pages = @ + 1,
                           !.yielded = @ \o (IF page.outcome = "ok"
                                             THEN ExtractAll("static", page.items, None)
                                             ELSE <<>>)]]
    /\ UNCHANGED <<jobs, products, ret, offered, main, SCRAPED_ITEMS, tempFile, storeFrame>>

\* StaticScraper.scrape returns the flattened list; main.py tags each record
MainStaticScraped(r) ==
    /\ run[r].kind = "static"
    /\ run[r].pc = "scraping"
    /\ run' = [run EXCEPT ![r].pc = "scraped",
                          ![r].results = Tag(run[r].yielded, "BooksToScrape", run[r].term)]
    /\ UNCHANGED <<jobs, products, ret, offered, main, SCRAPED_ITEMS, tempFile, storeFrame>>

\* main.py: job_id = db.queue_job('books')
MainStaticQueue(r) ==
    /\ run[r].kind = "static"
    /\ run[r].pc = "scraped"
    /\ jobs' = InsertJob(jobs, run[r].term, clock)
    /\ ret' = NextJobId(jobs)
    /\ run' = [run EXCEPT ![r].pc = "queued", ![r].job_id = NextJobId(jobs)]
    /\ UNCHANGED <<products, offered, main, SCRAPED_ITEMS, tempFile, storeFrame>>

\* main.py: db.insert_products(static_results, job_id=job_id); a storage error
\* is not caught here and ends main()
MainStaticInsert(r, ok) ==
    /\ run[r].kind = "static"
    /\ run[r].pc = "queued"
    /\ IF ok
       THEN /\ products' = ExecuteMany(products, run[r].results, run[r].job_id)
            /\ offered' = NoteBatch(offered, run[r].results, run[r].job_id)
            /\ run' = [run EXCEPT ![r].pc = "inserted", ![r].committed = TRUE]
       ELSE /\ run' = Step(r, "crashed")
            /\ UNCHANGED <<products, offered>>
    /\ ret' = NULL
    /\ UNCHANGED <<jobs, main, SCRAPED_ITEMS, tempFile, storeFrame>>

\* main.py: db.mark_job_complete(job_id)
MainStaticMark(r) ==
    /\ run[r].kind = "static"
    /\ run[r].pc = "inserted"
    /\ jobs' = UpdateJobCompleted(jobs, run[r].job_id, clock)
    /\ ret' = NULL
    /\ run' = Step(r, "done")
    /\ main' = 0
    /\ UNCHANGED <<products, offered, SCRAPED_ITEMS, tempFile, storeFrame>>

\* selenium_scraper.scrape_term_process in a pool worker: the EbayScraper is
\* built and scrape() sets up its driver
ScrapeTermProcess(r) ==
    /\ run[r].pc = "idle"
    /\ NextToStart(r)
    /\ run' = [run EXCEPT ![r] =
                 [@ EXCEPT !.kind = "ebay", !.pc = "scraping", !.term = TermOf(r)]]
    /\ UNCHANGED <<jobs, products, ret, offered, main, SCRAPED_ITEMS, tempFile, storeFrame>>

\* EbayScraper.scrape, one turn of the page loop: _scrape_page returns the
\* page's records, or [] when the wait timed out; any other exception leaves
\* the loop with the results collected so far
ScrapePage(r, page) ==
    /\ run[r].kind = "ebay"
    /\ run[r].pc = "scraping"
    /\ run[r].pages < MaxPages
    /\ run' = [run EXCEPT ![r] =
                 [@ EXCEPT !.pages = IF page.outcome = "error" THEN MaxPages ELSE @ + 1,
                           !.timedOut = @ \/ page.outcome = "timeout",
                           !.yielded = @ \o (IF page.outcome = "ok"
                                             THEN ExtractAll("ebay", page.items, None)
                                             ELSE <<>>)]]
    /\ UNCHANGED <<jobs, products, ret, offered, main, SCRAPED_ITEMS, tempFile, storeFrame>>

\* EbayScraper.scrape closes the driver and returns; scrape_term_process
\* returns json.dumps(results): the future's result is that JSON text
ScrapeTermReturn(r) ==
    /\ run[r].kind = "ebay"
    /\ run[r].pc = "scraping"
    /\ run' = [run EXCEPT ![r].pc = "returned", ![r].results = run[r].yielded]
    /\ UNCHANGED <<jobs, products, ret, offered, main, SCRAPED_ITEMS, tempFile, storeFrame>>

\* EbayScraper.scrape raises outside its try block (_setup_driver cannot start
\* the driver, or the results file cannot be written): scrape_term_process
\* raises and the future holds the exception
ScrapeTermRaise(r) ==
    /\ run[r].kind = "ebay"
    /\ run[r].pc = "scraping"
    /\ run' = Step(r, "raised")
    /\ UNCHANGED <<jobs, products, ret, offered, main, SCRAPED_ITEMS, tempFile, storeFrame>>

\* main.py, as_completed loop: future.result() re-raises the worker's
\* exception; the except clause logs it; queue_job is not reached
MainEbayRaised(r) ==
    /\ main = 0
    /\ run[r].kind = "ebay"
    /\ run[r].pc = "raised"
    /\ run' = Step(r, "error")
    /\ UNCHANGED <<jobs, products, ret, offered, main, SCRAPED_ITEMS, tempFile, storeFrame>>

\* db.queue_job(term) issued by the pool worker itself when its scrape ends
WorkerQueue(r) ==
    /\ run[r].kind = "ebay"
    /\ run[r].pc = "returned"
    /\ jobs' = InsertJob(jobs, run[r].term, clock)
    /\ ret' = NextJobId(jobs)
    /\ run' = [run EXCEPT ![r].pc = "queued", ![r].job_id = NextJobId(jobs)]
    /\ UNCHANGED <<products, offered, main, SCRAPED_ITEMS, tempFile, storeFrame>>

\* main.py, as_completed loop: results = future.result(); db.queue_job(term)
MainEbayQueue(r) ==
    /\ main = 0
    /\ run[r].kind = "ebay"
    /\ run[r].pc = "returned"
    /\ jobs' = InsertJob(jobs, run[r].term, clock)
    /\ ret' = NextJobId(jobs)
    /\ run' = [run EXCEPT ![r].pc = "queued", ![r].job_id = NextJobId(jobs)]
    /\ main' = r
    /\ UNCHANGED <<products, offered, SCRAPED_ITEMS, tempFile, storeFrame>>

\* main.py, as_completed loop: `for r in results: r['search_term'] = term`.
\* results is the JSON text, a str that is never empty ("[]" at least): the
\* loop takes its first character and the item assignment raises TypeError,
\* which the except clause logs; insert_products and mark_job_complete are
\* not reached.
MainEbayTag(r) ==
    /\ run[r].kind = "ebay"
    /\ run[r].pc = "queued"
    /\ run' = Step(r, "error")
    /\ main' = 0
    /\ UNCHANGED <<jobs, products, ret, offered, SCRAPED_ITEMS, tempFile, storeFrame>>

AmazonKinds == {"crawl", "simple"}

\* AmazonScrapyRunner.run_scraper, both runners: db.queue_job(...); the
\* scrapy_crawler runner also removes the temp file
RunnerQueue(r, kind, term) ==
    /\ main = 0
    /\ run[r].pc = "idle"
    /\ NextToStart(r)
    /\ jobs' = InsertJob(jobs, term, clock)
    /\ ret' = NextJobId(jobs)
    /\ run' = [run EXCEPT ![r] =
                 [@ EXCEPT !.kind = kind, !.pc = "started", !.term = term,
                           !.job_id = NextJobId(jobs)]]
    /\ main' = r
    /\ tempFile' = IF kind = "crawl" THEN Absent ELSE tempFile
    /\ UNCHANGED <<products, offered, SCRAPED_ITEMS, storeFrame>>

\* process.crawl(...): the spider's __init__ rebinds its module's
\* SCRAPED_ITEMS to []; with the scrapy_crawler settings the
\* CollectorPipeline's __init__ writes [] to the temp file
CrawlOpen(r) ==
    /\ run[r].kind \in AmazonKinds
    /\ run[r].pc = "started"
    /\ SCRAPED_ITEMS' = [SCRAPED_ITEMS EXCEPT ![run[r].kind] = <<>>]
    /\ tempFile' = IF run[r].kind = "crawl" THEN File(<<>>) ELSE tempFile
    /\ run' = Step(r, "crawling")
    /\ UNCHANGED <<jobs, products, ret, offered, main, storeFrame>>

\* One response of the crawl: AmazonAntiBlockMiddleware.process_response logs a
\* warning when the body holds a blocking pattern and passes the response on;
\* parse extracts the products, extends SCRAPED_ITEMS and yields them; the
\* CollectorPipeline appends each yielded item to the temp file.  A request
\* that failed for good reaches no callback.
CrawlResponse(r, page) ==
    /\ run[r].kind \in AmazonKinds
    /\ run[r].pc = "crawling"
    /\ run[r].pages < MaxPages
    /\ LET kind == run[r].kind
           found == IF page.outcome = "ok"
                    THEN ExtractAll(kind, page.items, run[r].term)
                    ELSE <<>>
       IN  /\ run' = [run EXCEPT ![r] =
                        [@ EXCEPT !.pages = @ + 1,
                                  !.yielded = @ \o found,
                                  !.blockLogged = @ \/ page.blocked,
                                  !.atBlock = IF page.blocked /\ ~run[r].blockLogged
                                              THEN Len(run[r].yielded) ELSE @]]
           /\ SCRAPED_ITEMS' = [SCRAPED_ITEMS EXCEPT ![kind] = @ \o found]
           /\ tempFile' = IF kind = "crawl" /\ found # <<>>
                          THEN File(tempFile.items \o found)
                          ELSE tempFile
    /\ UNCHANGED <<jobs, products, ret, offered, main, storeFrame>>

\* process.start() returns: the crawl engine has stopped
CrawlClose(r) ==
    /\ run[r].kind \in AmazonKinds
    /\ run[r].pc = "crawling"
    /\ run' = Step(r, "crawled")
    /\ UNCHANGED <<jobs, products, ret, offered, main, SCRAPED_ITEMS, tempFile, storeFrame>>

\* scrapy_crawler: scraped_items = self._read_scraped_results(temp_file);
\* scrapy_amazon_scraper.py: scraped_items = SCRAPED_ITEMS.copy()
RunnerCollect(r) ==
    /\ run[r].kind \in AmazonKinds
    /\ run[r].pc = "crawled"
    /\ run' = [run EXCEPT ![r].pc = "collected",
                          ![r].results = IF run[r].kind = "crawl"
                                         THEN (IF tempFile.exists THEN tempFile.items ELSE <<>>)
                                         ELSE SCRAPED_ITEMS.simple]
    /\ UNCHANGED <<jobs, products, ret, offered, main, SCRAPED_ITEMS, tempFile, storeFrame>>

\* `if scraped_items:` taken: insert_products(...); a storage error goes to
\* the runner's except clause
RunnerInsert(r, ok) ==
    /\ run[r].kind \in AmazonKinds
    /\ run[r].pc = "collected"
    /\ run[r].results # <<>>
    /\ LET batch == IF run[r].kind = "crawl"
                    THEN ProductsForDb(run[r].results) ELSE run[r].results
       IN  IF ok
           THEN /\ products' = ExecuteMany(products, batch, run[r].job_id)
                /\ offered' = NoteBatch(offered, batch, run[r].job_id)
                /\ run' = [run EXCEPT ![r].pc = "inserted", ![r].committed = TRUE]
           ELSE /\ run' = Step(r, "except")
                /\ UNCHANGED <<products, offered>>
    /\ ret' = NULL
    /\ UNCHANGED <<jobs, main, SCRAPED_ITEMS, tempFile, storeFrame>>

\* `if scraped_items:` not taken.  scrapy_crawler: _handle_blocking_scenario()
\* and return [], the job is left as it is; scrapy_amazon_scraper.py: go on to
\* mark_job_complete
RunnerNoItems(r) ==
    /\ run[r].kind \in AmazonKinds
    /\ run[r].pc = "collected"
    /\ run[r].results = <<>>
    /\ run' = Step(r, IF run[r].kind = "crawl" THEN "done" ELSE "inserted")
    /\ main' = IF run[r].kind = "crawl" THEN 0 ELSE main
    /\ UNCHANGED <<jobs, products, ret, offered, SCRAPED_ITEMS, tempFile, storeFrame>>

\* mark_job_complete(job_id) and return; the scrapy_crawler runner then
\* removes the temp file
RunnerMark(r) ==
    /\ run[r].kind \in AmazonKinds
    /\ run[r].pc = "inserted"
    /\ jobs' = UpdateJobCompleted(jobs, run[r].job_id, clock)
    /\ ret' = NULL
    /\ tempFile' = IF run[r].kind = "crawl" THEN Absent ELSE tempFile
    /\ run' = Step(r, "done")
    /\ main' = 0
    /\ UNCHANGED <<products, offered, SCRAPED_ITEMS, storeFrame>>

\* the runner's except clause.  scrapy_crawler: log, _handle_blocking_scenario,
\* return []; scrapy_amazon_scraper.py: `if 'job_id' in locals():
\* db.mark_job_complete(job_id)`, return []
RunnerExcept(r) ==
    /\ run[r].kind \in AmazonKinds
    /\ run[r].pc = "except"
    /\ jobs' = IF run[r].kind = "simple"
               THEN UpdateJobCompleted(jobs, run[r].job_id, clock) ELSE jobs
    /\ ret' = NULL
    /\ run' = Step(r, "done")
    /\ main' = 0
    /\ UNCHANGED <<products, offered, SCRAPED_ITEMS, tempFile, storeFrame>>

NextRun ==
    \E r \in RunIds :
        \/ MainStaticStart(r)
        \/ \E page \in Pages : ScrapePageWorker(r, page)
        \/ MainStaticScraped(r)
        \/ MainStaticQueue(r)
        \/ \E ok \in BOOLEAN : MainStaticInsert(r, ok)
        \/ MainStaticMark(r)
        \/ ScrapeTermProcess(r)
        \/ \E page \in Pages : ScrapePage(r, page)
        \/ ScrapeTermReturn(r)
        \/ ScrapeTermRaise(r)
        \/ MainEbayRaised(r)
        \/ MainEbayQueue(r)
        \/ MainEbayTag(r)
        \/ \E kind \in AmazonKinds : RunnerQueue(r, kind, TermOf(r))
        \/ CrawlOpen(r)
        \/ \E page \in Pages : CrawlResponse(r, page)
        \/ CrawlClose(r)
        \/ RunnerCollect(r)
        \/ \E ok \in BOOLEAN : RunnerInsert(r, ok)
        \/ RunnerNoItems(r)
        \/ RunnerMark(r)
        \/ RunnerExcept(r)

\* ------------------------------------------------------ static adapter alone
\* The selector map of a static configuration: whether config has the key
\* 'selectors' at all, and the keys of the map.
AllSelectors == {"container", "name", "price", "link", "image", "availability"}

SelectorMaps ==
    { [present |-> TRUE,  keys |-> AllSelectors],
      [present |-> TRUE,  keys |-> AllSelectors \ {"container"}],
      [present |-> TRUE,  keys |-> AllSelectors \ {"link"}],
      [present |-> FALSE, keys |-> {}] }

StaticConfigs == [selectors : SelectorMaps, max_pages : 0..MaxStaticPages]

\* ScrapingConfiguration.validate, the checks on selectors and page range:
\* TRUE when it reports no error
Validate(config) ==
    /\ config.selectors.present
    /\ config.selectors.keys # {}
    /\ {"container", "name", "price", "link"} \subseteq config.selectors.keys
    /\ config.max_pages >= 1

\* the containers of the static site's pages; the second Gadget has an
\* absolute href, which urljoin leaves as it is
StaticContainers ==
    SampleContainers
    \cup { [name |-> "Gadget", price |-> Str(<<"7">>),
            link |-> "http://books.toscrape.com/p2"] }

\* One fetch of the static adapter: the response came back ("ok") with its
\* containers, or the request raised or raise_for_status rejected the status
StaticPages ==
    [outcome : {"ok"}, items : UNION {[1..n -> StaticContainers] : n \in 0..MaxContainers}]
    \cup [outcome : {"error"}, items : {<<>>}]

\* scrape_page_worker after the fetch: [] from the except clause when the
\* fetch failed or a selectors[...] lookup raised KeyError (the container
\* lookup always, the name/price/link/image lookups once there is a container);
\* else the non-empty results of extract_data_static in container order
PageResults(config, page) ==
    IF page.outcome # "ok" THEN <<>>
    ELSE IF "container" \notin config.selectors.keys THEN <<>>
    ELSE IF page.items # <<>>
            /\ ~({"name", "price", "link", "image"} \subseteq config.selectors.keys)
         THEN <<>>
    ELSE ExtractAll("static", page.items, None)

\* [item for sublist in results for item in sublist if item]
RECURSIVE Flatten(_)
Flatten(results) ==
    IF results = <<>> THEN <<>> ELSE Head(results) \o Flatten(Tail(results))

staticFrame == <<jobs, products, clock, ret, sjob, offered, run, main, SCRAPED_ITEMS, tempFile,
                 ebay, pool, logging, crawler>>

\* StaticScraper(config).scrape() up to the pool: self.config['selectors']
\* raises KeyError when the key is absent; page_nums = range(start_page,
\* start_page + max_pages)
StaticScrapeBegin(config) ==
    /\ static.pc = "idle"
    /\ static' = [static EXCEPT !.config = config,
                                !.pc = IF config.selectors.present THEN "mapping"
                                       ELSE "raised"]
    /\ UNCHANGED staticFrame

\* a page failure ends the whole map with an exception
StaticPageWorkerAbort(page) ==
    /\ static.pc = "mapping"
    /\ Len(static.results) < static.config.max_pages
    /\ static' = IF page.outcome = "ok"
                 THEN [static EXCEPT !.requests = @ + 1,
                          !.results = Append(@, PageResults(static.config, page))]
                 ELSE [static EXCEPT !.requests = @ + 1, !.pc = "raised"]
    /\ UNCHANGED staticFrame

\* pool.map: scrape_page_worker for the next page of page_nums; the request is
\* issued by get_with_delay before anything else can fail
StaticPageWorker(page) ==
    /\ static.pc = "mapping"
    /\ Len(static.results) < static.config.max_pages
    /\ static' = [static EXCEPT !.requests = @ + 1,
                                !.results = Append(@, PageResults(static.config, page))]
    /\ UNCHANGED staticFrame

\* pool.map has returned every page's list: flatten and return
StaticScrapeReturn ==
    /\ static.pc = "mapping"
    /\ Len(static.results) >= static.config.max_pages
    /\ static' = [static EXCEPT !.pc = "done", !.scraped_data = Flatten(static.results)]
    /\ UNCHANGED staticFrame

NextStatic ==
    \/ \E config \in StaticConfigs : StaticScrapeBegin(config)
    \/ \E page \in StaticPages : StaticPageWorker(page)
    \/ StaticScrapeReturn


\* ----------------------------------------------------- browser adapter alone
\* One page of the browser adapter: the results container appeared ("ok"), the
\* wait raised TimeoutException ("timeout"), or driver.get / find_element raised
\* something else ("error")
EbayPages ==
    [outcome : {"ok"}, items : ContainerLists]
    \cup [outcome : {"timeout", "error"}, items : {<<>>}]

\* close() without quitting the driver
CloseKeepsSession(s) == s

\* EbayScraper.close: if self.driver: self.driver.quit(); self.driver = None
Close(s) ==
    IF s.driver # NULL
    THEN [s EXCEPT !.driver = NULL, !.live = @ \ {s.driver}]
    ELSE s

\* EbayScraper._setup_driver: self.driver = webdriver.Chrome(...)
SetupDriver(s) ==
    [s EXCEPT !.driver = s.opened + 1, !.opened = @ + 1, !.live = @ \cup {s.opened + 1}]

ebayFrame == <<jobs, products, clock, ret, sjob, offered, run, main, SCRAPED_ITEMS, tempFile,
               static, pool, logging, crawler>>

\* EbayScraper.scrape up to the page loop: `if not self.driver:
\* self._setup_driver()`; when webdriver.Chrome raises, scrape raises with
\* self.driver still None
EbayScrape(term, max_pages, started) ==
    /\ ebay.pc = "idle"
    /\ ebay.calls < MaxScrapes
    /\ LET s == [ebay EXCEPT !.calls = @ + 1, !.term = term, !.max_pages = max_pages,
                             !.page_num = 0, !.results = <<>>, !.returned = <<>>,
                             !.slept = FALSE, !.undelayed = 0]
       IN  ebay' = IF s.driver # NULL THEN [s EXCEPT !.pc = "pages", !.exit = None]
                   ELSE IF started THEN [SetupDriver(s) EXCEPT !.pc = "pages", !.exit = None]
                   ELSE [s EXCEPT !.exit = "raised"]
    /\ UNCHANGED ebayFrame

\* one turn of the page loop: _scrape_page calls driver.get(url) and returns
\* the page's records, or [] on TimeoutException, and the loop then runs
\* time.sleep(delay_between_pages); any other exception is logged by
\* `except Exception` and leaves the loop
EbayScrapePage(page) ==
    /\ ebay.pc = "pages"
    /\ ebay.page_num < ebay.max_pages
    /\ LET got == [ebay EXCEPT !.page_num = @ + 1,
                               !.undelayed = IF ebay.slept THEN @ ELSE @ + 1]
       IN  ebay' = IF page.outcome = "error"
                   THEN [got EXCEPT !.slept = FALSE, !.pc = "finally"]
                   ELSE [got EXCEPT !.slept = TRUE,
                                    !.results = @ \o ExtractAll("ebay", page.items, None)]
    /\ UNCHANGED ebayFrame

\* the finally clause, self.close(), then the results file is written and the
\* results are returned; when the file cannot be written scrape raises, after
\* the close
EbayScrapeEnd(written) ==
    /\ \/ ebay.pc = "finally"
       \/ ebay.pc = "pages" /\ ebay.page_num >= ebay.max_pages
    /\ ebay' = [Close(ebay) EXCEPT !.pc = "idle",
                                   !.exit = IF written THEN "returned" ELSE "raised",
                                   !.returned = IF written THEN ebay.results ELSE <<>>]
    /\ UNCHANGED ebayFrame

\* EbayScraper.close / __exit__ called between two scrape() calls
EbayClose ==
    /\ ebay.pc = "idle"
    /\ ebay.exit # "closed"
    /\ ebay' = [Close(ebay) EXCEPT !.exit = "closed"]
    /\ UNCHANGED ebayFrame

NextEbay ==
    \/ \E term \in Terms, max_pages \in 0..MaxPages, started \in BOOLEAN :
           EbayScrape(term, max_pages, started)
    \/ \E page \in EbayPages : EbayScrapePage(page)
    \/ \E written \in BOOLEAN : EbayScrapeEnd(written)
    \/ EbayClose

\* ------------------------------------------------------------- worker pools
\* main.py: search_terms = ['iphone', 'macbook', 'gaming laptop']
search_terms == <<"iphone", "macbook", "gaming laptop">>

Min(a, b) == IF a <= b THEN a ELSE b

\* main.py: ProcessPoolExecutor(max_workers=min(len(search_terms), 3))
ExecutorMaxWorkers(terms) == Min(Len(terms), 3)

\* a pool with one process per processor
OneProcessPerCpu(cpu_count) == cpu_count

\* StaticScraper.scrape: multiprocessing.Pool(processes=min(4, cpu_count()))
PoolProcesses(cpu_count) == Min(4, cpu_count)

\* the processes of the pool that are running a task
Busy(p) == {w \in DOMAIN p.workers : p.workers[w] # 0}

poolFrame == <<jobs, products, clock, ret, sjob, offered, run, main, SCRAPED_ITEMS, tempFile,
               static, ebay, logging, crawler>>

\* main.py: the executor is created and one scrape_term_process call is
\* submitted for each search term
ExecutorSubmit ==
    /\ pool.kind = "none"
    /\ pool' = [NoPool EXCEPT !.kind = "ebay",
                              !.processes = ExecutorMaxWorkers(search_terms),
                              !.tasks = Len(search_terms),
                              !.workers = [w \in 1..ExecutorMaxWorkers(search_terms) |-> 0]]
    /\ UNCHANGED poolFrame

\* StaticScraper.scrape: the pool is created and pool.map hands it one
\* scrape_page_worker call for each page of page_nums
PoolMap(cpu_count, max_pages) ==
    /\ pool.kind = "none"
    /\ pool' = [NoPool EXCEPT !.kind = "static",
                              !.cpu_count = cpu_count,
                              !.processes = PoolProcesses(cpu_count),
                              !.tasks = max_pages,
                              !.workers = [w \in 1..PoolProcesses(cpu_count) |-> 0]]
    /\ UNCHANGED poolFrame

\* an idle process of the pool takes the next task off the pool's queue
WorkerTake(w) ==
    /\ pool.kind # "none"
    /\ w \in DOMAIN pool.workers
    /\ pool.workers[w] = 0
    /\ pool.taken < pool.tasks
    /\ pool' = [pool EXCEPT !.taken = @ + 1, !.workers[w] = pool.taken + 1]
    /\ UNCHANGED poolFrame

\* the call a process is running ends: scrape_page_worker always returns (its
\* except clause returns []); scrape_term_process returns or raises, and the
\* exception is kept for future.result()
WorkerFinish(w, ok) ==
    /\ pool.kind # "none"
    /\ w \in DOMAIN pool.workers
    /\ pool.workers[w] # 0
    /\ ok \/ pool.kind = "ebay"
    /\ pool' = [pool EXCEPT !.workers[w] = 0,
                            !.done = @ \cup {pool.workers[w]},
                            !.raised = IF ok THEN @ ELSE @ \cup {pool.workers[w]}]
    /\ UNCHANGED poolFrame

\* every task has ended: pool.map returns / the last future completes, and
\* the `with` statement shuts the pool down
PoolExit ==
    /\ pool.kind # "none"
    /\ Cardinality(pool.done) = pool.tasks
    /\ pool' = NoPool
    /\ UNCHANGED poolFrame

NextPool ==
    \/ ExecutorSubmit
    \/ \E cpu_count \in 1..MaxCpu, max_pages \in 0..MaxPoolTasks : PoolMap(cpu_count, max_pages)
    \/ \E w \in 1..MaxCpu : WorkerTake(w)
    \/ \E w \in 1..MaxCpu, ok \in BOOLEAN : WorkerFinish(w, ok)
    \/ PoolExit

\* ------------------------------------------------- logging across processes
\* the main process, as the origin of a record on log_queue
MainProcess == 0

\* utils/logger.py setup_logger(name, log_file, log_level, log_queue) applied
\* to the logger lg that logging.getLogger(name) returned
setup_logger(lg, log_file, log_queue) ==
    IF lg.handlers # {} THEN [lg EXCEPT !.propagate = FALSE]
    ELSE [handlers |-> {"console"}
                       \cup (IF log_queue THEN {"queue"}
                             ELSE IF log_file # None THEN {log_file} ELSE {}),
          propagate |-> FALSE]

\* utils/multiproc_logging.py setup_worker_logger: the root logger's handlers
\* become [QueueHandler(log_queue)]
setup_worker_logger(root) == [root EXCEPT !.handlers = {"queue"}]

\* Logger.callHandlers: the handlers a record logged on lg is passed to
CallHandlers(lg, root) ==
    lg.handlers \cup (IF lg.propagate THEN root.handlers ELSE {})

\* the handlers hs of process proc emit one record: a QueueHandler puts it on
\* log_queue, a FileHandler appends it to its file, the console handler
\* writes to stderr
Emit(L, proc, hs) ==
    [L EXCEPT !.log_queue = IF "queue" \in hs THEN Append(@, proc) ELSE @,
              !.files = [f \in LogFiles |->
                            IF f \in hs THEN [@[f] EXCEPT !.workers = @ \cup {proc}]
                            ELSE @[f]]]

logFrame == <<jobs, products, clock, ret, sjob, offered, run, main, SCRAPED_ITEMS, tempFile,
              static, ebay, pool, crawler>>

\* main.py: logger.info(...) on the main process's logger, whose only handler
\* is QueueHandler(log_queue)
MainLogs ==
    /\ Len(logging.log_queue) < MaxLogQueue
    /\ logging' = [logging EXCEPT !.log_queue = Append(@, MainProcess)]
    /\ UNCHANGED logFrame

\* scrape_term_process in pool process w up to `scraper = EbayScraper(...)`:
\* `if log_queue: setup_worker_logger(log_queue)`, then EbayScraper.__init__
\* calls setup_logger(__name__, log_file='../logs/ebay_scraper.log')
ScrapeTermProcessInit(w, log_queue) ==
    /\ logging.workers[w].pc = "idle"
    /\ logging' = [logging EXCEPT !.workers[w] =
          [pc |-> "ebay",
           root |-> IF log_queue THEN setup_worker_logger(@.root) ELSE @.root,
           logger |-> setup_logger(@.logger, "../logs/ebay_scraper.log", FALSE)]]
    /\ UNCHANGED logFrame

\* scrape_page_worker in pool process w:
\* logger = setup_logger(f"worker_{page_num}", log_file=None); every page has
\* its own logger name
ScrapePageWorkerInit(w) ==
    /\ logging.workers[w].pc = "idle"
    /\ logging' = [logging EXCEPT !.workers[w] =
          [pc |-> "static", root |-> @.root,
           logger |-> setup_logger(NewLogger, None, FALSE)]]
    /\ UNCHANGED logFrame

\* self.logger.info/warning/exception(...) in EbayScraper, logger.info/warning
\* in scrape_page_worker: one record of the task pool process w is running
WorkerLogs(w) ==
    /\ logging.workers[w].pc # "idle"
    /\ Len(logging.log_queue) < MaxLogQueue
    /\ logging' = Emit(logging, w,
                       CallHandlers(logging.workers[w].logger, logging.workers[w].root))
    /\ UNCHANGED logFrame

\* the task of pool process w returns; the process stays, and so do its root
\* logger and the logger named after the selenium_scraper module (a page
\* worker's logger, named after its page, is not used again)
WorkerReturns(w) ==
    /\ logging.workers[w].pc # "idle"
    /\ logging' = [logging EXCEPT !.workers[w].pc = "idle",
                                  !.workers[w].logger =
                                      IF logging.workers[w].pc = "static"
                                      THEN NewLogger ELSE @]
    /\ UNCHANGED logFrame

\* the QueueListener thread of the main process takes the next record off
\* log_queue and passes it to its FileHandler
ListenerHandle ==
    /\ logging.log_queue # <<>>
    /\ logging' = [logging EXCEPT !.log_queue = Tail(@),
                                  !.files["logs/main.log"].listener = TRUE]
    /\ UNCHANGED logFrame

NextLog ==
    \/ MainLogs
    \/ \E w \in 1..NumRuns, log_queue \in BOOLEAN : ScrapeTermProcessInit(w, log_queue)
    \/ \E w \in 1..NumRuns : ScrapePageWorkerInit(w)
    \/ \E w \in 1..NumRuns : WorkerLogs(w)
    \/ \E w \in 1..NumRuns : WorkerReturns(w)
    \/ ListenerHandle

\* ------------------------------------------------ managed-crawl adapter alone
\* AmazonProductSpider.custom_settings; they are applied with the spider's
\* priority and so prevail over the values run_scraper puts into the project
\* settings with settings.update (RETRY_TIMES 1)
RETRY_TIMES == 2

RETRY_HTTP_CODES == {500, 502, 503, 504, 408, 429, 403}

\* the result containers of a search page
CrawlBodies ==
    { <<>>,
      <<[name |-> "Widget", price |-> Str(<<"$", "5">>), link |-> "/p1"]>>,
      <<[name |-> None,     price |-> Str(<<"$", "5">>), link |-> "/p1"]>>,
      <<[name |-> "Widget", price |-> Str(<<"$", "5">>), link |-> "/p1"],
        [name |-> "Gadget", price |-> NoPrice,           link |-> None]>> }

\* what the downloader gets for one request: a page, a status the retry
\* middleware retries, or a status it does not
Responses ==
    [status : {200}, items : CrawlBodies] \cup [status : {503, 404}, items : {<<>>}]

\* the search term lists run_scraper is called with
TermLists == {<<"q1">>, <<"q2">>}

\* AmazonProductSpider.start_requests: three URL patterns for each search term,
\* page 1, dont_filter=True
start_requests(terms) ==
    {[search_term |-> terms[i], page |-> 1, url_variant |-> v, retry_times |-> 0] :
        i \in 1..Len(terms), v \in 0..2}

\* one retry more than the setting allows
OneMoreRetry == RETRY_TIMES + 1

\* the retry middleware's limit: settings.getint('RETRY_TIMES')
max_retry_times == RETRY_TIMES

\* the retry middleware: a response with a status of RETRY_HTTP_CODES is
\* answered by a new copy of the request while the count of retries, this one
\* included, is within the limit
Retried(request, response) ==
    /\ response.status \in RETRY_HTTP_CODES
    /\ request.retry_times + 1 <= max_retry_times

\* a next page is requested whenever the page had products
AlwaysNextPage(found, page, max_pages) == found # <<>>

\* AmazonProductSpider.parse: `if products:` ... `if page < self.max_pages:`
YieldsNextPage(found, page, max_pages) == found # <<>> /\ page < max_pages

\* the file holds the last item only
KeepLastItem(file, item) == File(<<item>>)

\* CollectorPipeline.process_item: load the list of the file ([] when the file
\* is missing), append the item, save the list
process_item(file, item) ==
    File(Append(IF file.exists THEN file.items ELSE <<>>, item))

\* the item pipeline applied to the products parse yields, in order
RECURSIVE ProcessItems(_, _)
ProcessItems(file, found) ==
    IF found = <<>> THEN file
    ELSE ProcessItems(process_item(file, Head(found)), Tail(found))

\* AmazonScrapyRunner._read_scraped_results
ReadScrapedResults(file) == IF file.exists THEN file.items ELSE <<>>

crawlFrame == <<clock, sjob, run, main, SCRAPED_ITEMS, tempFile, static, ebay, pool, logging>>

\* an earlier process ended run_scraper in its except clause after the crawl
\* and left temp_scraped_items.json behind
StaleTempFile(term) ==
    /\ crawler.pc = "idle"
    /\ crawler.calls = 0
    /\ ~crawler.items_file.exists
    /\ crawler' = [crawler EXCEPT !.items_file =
                      File(ExtractAll("crawl", <<[name |-> "Gadget", price |-> NoPrice,
                                                  link |-> None]>>, term))]
    /\ UNCHANGED <<jobs, products, ret, offered, crawlFrame>>

\* run_scraper up to process.start(): queue_job, os.remove(temp_file),
\* CrawlerProcess(settings), process.crawl(...) (the spider and the
\* CollectorPipeline are constructed: the pipeline writes [] to the temp file),
\* process.start().  In a process whose reactor has run before, start() raises
\* ReactorNotRestartable, and the except clause logs and returns [].
RunScraper(terms, max_pages) ==
    /\ crawler.pc = "idle"
    /\ crawler.calls < MaxScrapes
    /\ jobs' = InsertJob(jobs, terms[1], clock)
    /\ ret' = NextJobId(jobs)
    /\ LET c == [crawler EXCEPT !.calls = @ + 1, !.search_terms = terms,
                                !.max_pages = max_pages, !.job_id = NextJobId(jobs),
                                !.pending = {}, !.seen = {}, !.sent = 0, !.abandoned = 0,
                                !.emitted = <<>>, !.items_file = File(<<>>),
                                !.scraped_items = <<>>, !.inserted = <<>>,
                                !.returned = <<>>]
       IN  crawler' = IF crawler.reactor = "unused"
                      THEN [c EXCEPT !.pc = "crawling", !.reactor = "running",
                                     !.engine_ran = TRUE, !.exit = None,
                                     !.pending = start_requests(terms)]
                      ELSE [c EXCEPT !.engine_ran = FALSE, !.exit = "except"]
    /\ UNCHANGED <<products, offered, crawlFrame>>

\* the engine sends one request of the scheduler and handles the response:
\* a page goes to parse, whose products go through the item pipeline and
\* whose next-page request passes the duplicate filter once per URL; a
\* retryable status is answered by the retry middleware, which gives the
\* request up (abandoned) once its retries are used; any other response
\* without a page is dropped before the spider
EngineDownload(request, response) ==
    /\ crawler.pc = "crawling"
    /\ request \in crawler.pending
    /\ LET rest == crawler.pending \ {request}
           found == ExtractAll("crawl", response.items, request.search_term)
           next == [search_term |-> request.search_term, page |-> request.page + 1,
                    url_variant |-> 0, retry_times |-> 0]
           url == <<next.search_term, next.page>>
           c == [crawler EXCEPT !.sent = @ + 1]
       IN  crawler' =
             IF response.status = 200
             THEN IF YieldsNextPage(found, request.page, crawler.max_pages)
                     /\ url \notin crawler.seen
                  THEN [c EXCEPT !.emitted = @ \o found,
                                 !.items_file = ProcessItems(@, found),
                                 !.pending = rest \cup {next},
                                 !.seen = @ \cup {url}]
                  ELSE [c EXCEPT !.emitted = @ \o found,
                                 !.items_file = ProcessItems(@, found),
                                 !.pending = rest]
             ELSE IF Retried(request, response)
                  THEN [c EXCEPT !.pending =
                           rest \cup {[request EXCEPT !.retry_times = @ + 1]}]
                  ELSE [c EXCEPT !.pending = rest,
                                 !.abandoned = IF response.status \in RETRY_HTTP_CODES
                                               THEN @ + 1 ELSE @]
    /\ UNCHANGED <<jobs, products, ret, offered, crawlFrame>>

\* no request is left: the spider is closed, the reactor stops and
\* process.start() returns
EngineStop ==
    /\ crawler.pc = "crawling"
    /\ crawler.pending = {}
    /\ crawler' = [crawler EXCEPT !.pc = "stopped", !.reactor = "stopped"]
    /\ UNCHANGED <<jobs, products, ret, offered, crawlFrame>>

\* run_scraper after process.start(): _read_scraped_results(temp_file); with
\* items: products_for_db, insert_products, mark_job_complete, remove the temp
\* file, return the items (a storage error in insert_products goes to the
\* except clause, which returns []); without items: return []
RunnerFinish(ok) ==
    /\ crawler.pc = "stopped"
    /\ LET scraped_items == ReadScrapedResults(crawler.items_file)
           c == [crawler EXCEPT !.pc = "idle", !.scraped_items = scraped_items]
       IN  IF scraped_items # <<>> /\ ok
           THEN /\ crawler' = [c EXCEPT !.exit = "items", !.items_file = Absent,
                                        !.inserted = ProductsForDb(scraped_items),
                                        !.returned = scraped_items]
                /\ products' = ExecuteMany(products, ProductsForDb(scraped_items),
                                           crawler.job_id)
                /\ offered' = NoteBatch(offered, ProductsForDb(scraped_items),
                                        crawler.job_id)
                /\ jobs' = UpdateJobCompleted(jobs, crawler.job_id, clock)
           ELSE /\ crawler' = [c EXCEPT !.exit = IF scraped_items = <<>>
                                                 THEN "empty" ELSE "except"]
                /\ UNCHANGED <<jobs, products, offered>>
    /\ ret' = NULL
    /\ UNCHANGED crawlFrame

\* the steps of the running crawl engine
EngineStep ==
    \/ \E request \in crawler.pending, response \in Responses :
           EngineDownload(request, response)
    \/ EngineStop

NextCrawl ==
    \/ \E term \in Terms : StaleTempFile(term)
    \/ \E terms \in TermLists, max_pages \in 1..MaxPages : RunScraper(terms, max_pages)
    \/ EngineStep
    \/ \E ok \in BOOLEAN : RunnerFinish(ok)

NextStore ==
    \/ \E term \in Terms : QueueJob(term)
    \/ \E job_id \in 1..MaxJobs : MarkJobComplete(job_id)
    \/ \E batch \in Batches, job_id \in {NULL} \cup JobIds(jobs) : InsertProducts(batch, job_id)

vars == <<jobs, products, clock, ret, sjob, offered, run, main, SCRAPED_ITEMS, tempFile,
          static, ebay, pool, logging, crawler>>

SpecStore == Init /\ [][NextStore]_vars

SpecJob == Init /\ [][NextJob]_vars

SpecRun == Init /\ [][NextRun]_vars

SpecStatic == Init /\ [][NextStatic]_vars

SpecEbay == Init /\ [][NextEbay]_vars

SpecPool == Init /\ [][NextPool]_vars

SpecLog == Init /\ [][NextLog]_vars

SpecCrawl == Init /\ [][NextCrawl]_vars

\* the reactor keeps running the engine while the crawl is on
SpecCrawlFair == SpecCrawl /\ WF_vars(EngineStep)

\* =================================================================== claims
RowsWithLink(rows, l) == {i \in 1..Len(rows) : rows[i].link = l}

\* C1: after any sequence of insert_products calls the store holds at most one
\* row per identity link, and that row carries the values of the first record
\* that was inserted with the link; a later record with the link is dropped.
C1_FirstLinkWins ==
    \A l \in Links :
        /\ Cardinality(RowsWithLink(products, l)) <= 1
        /\ offered.first[l] # NoRow =>
               \E i \in RowsWithLink(products, l) : products[i] = offered.first[l]

\* C1 witness: a link is stored and a later record with that link was handed in.
C1_Witness ==
    \E l \in Links : offered.again[l] /\ RowsWithLink(products, l) # {}

\* C2: inserting a batch a second time, in a second call under any job id or
\* doubled within one call, leaves the number of stored rows unchanged.
C2_BatchIdempotent ==
    [][\A batch \in Batches, job_id \in {NULL} \cup JobIds(jobs) :
          InsertProducts(batch, job_id) =>
              /\ \A again \in {NULL} \cup JobIds(jobs) :
                    Len(ExecuteMany(products', batch, again)) = Len(products')
              /\ Len(ExecuteMany(products, batch \o batch, job_id)) = Len(products')
      ]_vars

Rank(status) ==
    CASE status = "pending" -> 0 [] status = "running" -> 1
      [] status = "completed" -> 2 [] status = "failed" -> 2

\* a status may stay, or move forward from pending or running
Forward(old, new) == old = new \/ (Rank(old) < Rank(new) /\ Rank(old) < 2)

\* C3: under any sequence of start, complete, fail and mark_job_complete a job's
\* status only moves forward along pending, running, completed|failed; nothing
\* leaves completed or failed and nothing moves backwards.
C3_MonotonicStatus ==
    [][/\ Forward(sjob.status, sjob'.status)
       /\ \A i \in 1..Len(jobs) : Forward(jobs[i].status, jobs'[i].status)
      ]_vars

\* C4: in every reachable state a job's failure reason (error_message) is set
\* if and only if its status is failed.
C4_ReasonIffFailed ==
    (sjob.error_message # None) <=> (sjob.status = "failed")

\* C5: in every reachable state, in the ScrapingJob object and in the jobs
\* table, completed_at is set if and only if the status is completed or failed.
C5_CompletedAtIffTerminal ==
    /\ (sjob.completed_at # NULL) <=> (sjob.status \in {"completed", "failed"})
    /\ \A i \in 1..Len(jobs) :
          (jobs[i].completed_at # NULL) <=> (jobs[i].status \in {"completed", "failed"})

\* C6: started_at and completed_at are each assigned at most once: once set, no
\* later start, complete, fail or mark_job_complete changes the stored value.
C6_TimestampsSetOnce ==
    [][/\ sjob.started_at # NULL => sjob'.started_at = sjob.started_at
       /\ sjob.completed_at # NULL => sjob'.completed_at = sjob.completed_at
       /\ \A i \in 1..Len(jobs) :
             jobs[i].completed_at # NULL => jobs'[i].completed_at = jobs[i].completed_at
      ]_vars

\* C7: queue_job adds exactly one job, pending and with completed_at unset,
\* returns its identifier, which no earlier job has, and changes no existing
\* job row and no product row.
C7_QueueJobAddsOnePending ==
    [][\A term \in Terms :
          QueueJob(term) =>
              /\ Len(jobs') = Len(jobs) + 1
              /\ \A i \in 1..Len(jobs) : jobs'[i] = jobs[i]
              /\ jobs'[Len(jobs')].job_id = ret'
              /\ jobs'[Len(jobs')].search_term = term
              /\ jobs'[Len(jobs')].status = "pending"
              /\ jobs'[Len(jobs')].completed_at = NULL
              /\ ret' \notin JobIds(jobs)
              /\ products' = products
      ]_vars

\* C7 witness: queue_job has just returned the id of a second job while the
\* store already held a job and a product.
C7_Witness ==
    /\ Len(jobs) >= 2
    /\ ret = jobs[Len(jobs)].job_id
    /\ jobs[Len(jobs)].status = "pending"
    /\ Len(products) >= 1

\* the status column of the job a run queued
StatusOf(job_id) == (CHOOSE j \in {jobs[i] : i \in 1..Len(jobs)} : j.job_id = job_id).status

\* the batch a run handed to insert_products
BatchOf(r) == IF run[r].kind = "crawl" THEN ProductsForDb(run[r].results) ELSE run[r].results

\* C8: every record that reaches the store is valid (a non-empty name and a
\* link or a price), on every path from an adapter to insert_products.
C8_OnlyValidRecordsStored ==
    \A r \in RunIds :
        run[r].committed => \A k \in 1..Len(BatchOf(r)) : IsValid(BatchOf(r)[k])

\* C9: on every orchestrator path a job is seen completed only after the insert
\* of all the records its adapter run yielded has been committed.
C9_InsertBeforeCompleted ==
    \A r \in RunIds :
        (run[r].job_id # NULL /\ StatusOf(run[r].job_id) = "completed")
            => (run[r].yielded = <<>> \/ run[r].committed)

\* C10: a managed-crawl run that received a response with a blocking indicator
\* ends with its job failed (reason "blocked"; the jobs table has no column for
\* a reason), and every record collected before that response is persisted.
C10_BlockedRunFailsJob ==
    \A r \in RunIds :
        (run[r].kind \in AmazonKinds /\ run[r].pc = "done" /\ run[r].blockLogged)
            => /\ StatusOf(run[r].job_id) = "failed"
               /\ \A k \in 1..run[r].atBlock :
                     \E i \in 1..Len(products) :
                         /\ products[i].name = run[r].yielded[k].name
                         /\ products[i].link = run[r].yielded[k].link

\* a run has reached the end of its orchestrator path
Finished(r) == run[r].pc \in {"done", "error", "crashed"}

\* C11: an exception of one adapter run that reaches the orchestrator boundary
\* leaves a job record with status failed, and the sibling runs that finished
\* beside it have their records persisted and their jobs completed.
C11_ErrorBecomesFailedJob ==
    \A r \in RunIds :
        run[r].pc = "error" =>
            /\ run[r].job_id # NULL
            /\ StatusOf(run[r].job_id) = "failed"
            /\ \A s \in RunIds \ {r} :
                  (Finished(s) /\ run[s].yielded # <<>>) =>
                      (run[s].committed /\ StatusOf(run[s].job_id) = "completed")

\* C12: for every adapter, a run that ends without error and yielded no record
\* leaves its job completed.
C12_EmptyRunCompletes ==
    \A r \in RunIds :
        (run[r].pc = "done" /\ run[r].yielded = <<>>) =>
            (run[r].job_id # NULL /\ StatusOf(run[r].job_id) = "completed")

\* the links of a sequence of records are pairwise different
DistinctLinks(records) ==
    \A i, j \in 1..Len(records) : records[i].link = records[j].link => i = j

\* C13: after two browser jobs for different queries have run on the worker
\* pool and both workers have returned and been handled, the store holds for each query as many rows as
\* that job yielded (no two of the yielded records sharing a link), and every
\* row of a job carries that job's search term.
C13_PerQueryCounts ==
    (/\ \A r \in RunIds : run[r].kind = "ebay" /\ Finished(r) /\ run[r].job_id # NULL
     /\ DistinctLinks(run[1].yielded \o run[2].yielded))
        => /\ \A r \in RunIds :
                 Cardinality({i \in 1..Len(products) :
                                 products[i].search_term = run[r].term})
                     = Len(run[r].yielded)
           /\ \A r \in RunIds : \A i \in 1..Len(products) :
                 products[i].job_id = run[r].job_id =>
                     products[i].search_term = run[r].term

C15_PageFailureSkipped ==
    /\ [](static.pc = "raised" => ~static.config.selectors.present)
    /\ [](static.pc = "done" =>
             /\ Len(static.results) = static.config.max_pages
             /\ static.requests = static.config.max_pages
             /\ static.scraped_data = Flatten(static.results))
    /\ [][\A page \in StaticPages :
             StaticPageWorker(page) =>
                 /\ static'.pc = "mapping"
                 /\ (page.outcome # "ok" \/ page.items = <<>>) =>
                        static'.results = Append(static.results, <<>>)
                 /\ (page.outcome = "ok" /\ AllSelectors \subseteq static.config.selectors.keys) =>
                        static'.results =
                            Append(static.results, ExtractAll("static", page.items, None))
         ]_vars

\* C15 witness: scrape() has returned the records of the second page of a
\* two-page range whose first page contributed nothing.
C15_Witness ==
    /\ static.pc = "done"
    /\ static.config.max_pages = 2
    /\ static.results[1] = <<>>
    /\ static.results[2] # <<>>
    /\ static.scraped_data = static.results[2]

HasNameAndLink(item) == item.name # None /\ item.link # None

\* C19: for a page of the static site, parsed against the complete selector
\* map, the adapter yields one record for each container that has a name and a
\* link, in container order, and nothing for a container missing either.
C19_OneRecordPerNamedLinkedContainer ==
    [][\A page \in StaticPages :
          (/\ StaticPageWorker(page)
           /\ page.outcome = "ok"
           /\ AllSelectors \subseteq static.config.selectors.keys) =>
              LET out  == static'.results[Len(static'.results)]
                  kept == SelectSeq(page.items, HasNameAndLink)
              IN  /\ Len(out) = Len(kept)
                  /\ \A k \in 1..Len(kept) :
                        /\ out[k].name = kept[k].name
                        /\ out[k].link = AbsoluteLink("books", kept[k].link)
      ]_vars

\* C19 witness: a page has yielded two records with different links, in order.
C19_Witness ==
    \E k \in 1..Len(static.results) :
        /\ Len(static.results[k]) = 2
        /\ static.results[k][1].name = "Widget"
        /\ static.results[k][2].name = "Gadget"
        /\ static.results[k][1].link # static.results[k][2].link

\* C20: a run of the static adapter whose configuration is invalid (a required
\* selector missing, or an invalid page range) issues no network request.
C20_InvalidConfigNoFetch ==
    (static.pc # "idle" /\ ~Validate(static.config)) => static.requests = 0

\* C16: in the browser adapter a page whose wait timed out yields no record,
\* the run goes on with the next page, and the job of a run that had such a
\* page and whose worker returned still becomes completed, with the records of
\* the other pages persisted.
C16_TimeoutPageSkipped ==
    \A r \in RunIds :
        (run[r].kind = "ebay" /\ run[r].timedOut /\ Finished(r) /\ run[r].job_id # NULL)
            => /\ StatusOf(run[r].job_id) = "completed"
               /\ run[r].yielded # <<>> => run[r].committed

\* C17: whenever no scrape() call is in progress on an EbayScraper, and so
\* after scrape() has ended on any exit path, its driver is None and no
\* browser session it opened is alive; at no time is more than one alive.
C17_SessionReleased ==
    /\ Cardinality(ebay.live) <= 1
    /\ ebay.pc = "idle" => (ebay.driver = NULL /\ ebay.live = {})

\* C17 witness: a second scrape() call has ended after an exception in its page
\* loop; two sessions were opened in all.
C17_Witness ==
    /\ ebay.pc = "idle"
    /\ ebay.calls = 2
    /\ ebay.opened = 2
    /\ ebay.exit = "returned"
    /\ ebay.page_num < ebay.max_pages

\* C18: insert_products returns the number of records it inserted: the batch
\* size minus the records ignored for a link already stored or repeated.
C18_InsertReturnsCount ==
    [][\A batch \in Batches, job_id \in {NULL} \cup JobIds(jobs) :
          InsertProducts(batch, job_id) => ret' = Len(products') - Len(products)
      ]_vars

\* C22: in the browser adapter a page-level failure other than the wait timeout
\* (a navigation error, a missing results container, a failure writing the
\* debug page dump) costs only that page: whenever scrape() has returned, every
\* page of the range was attempted.
C22_PageErrorScoped ==
    (ebay.pc = "idle" /\ ebay.exit = "returned") => ebay.page_num >= ebay.max_pages

\* C28: no store operation deletes a job or a product or changes a field of a
\* stored product; mark_job_complete(j) changes only the status and the
\* completed-at time of job j and leaves every other job and every product as
\* it was (and changes nothing when no job j exists).
C28_StoreFrame ==
    [][/\ Len(products') >= Len(products)
       /\ \A i \in 1..Len(products) : products'[i] = products[i]
       /\ Len(jobs') >= Len(jobs)
       /\ \A i \in 1..Len(jobs) : jobs'[i].job_id = jobs[i].job_id
       /\ \A job_id \in 1..MaxJobs :
             MarkJobComplete(job_id) =>
                 /\ products' = products
                 /\ Len(jobs') = Len(jobs)
                 /\ \A i \in 1..Len(jobs) :
                       jobs'[i] = IF jobs[i].job_id = job_id
                                  THEN [jobs[i] EXCEPT !.status = "completed",
                                                       !.completed_at = clock]
                                  ELSE jobs[i]
                 /\ job_id \notin JobIds(jobs) => jobs' = jobs
      ]_vars

\* C28 witness: one job has been marked completed while another job is still
\* pending and a product is stored.
C28_Witness ==
    /\ Len(products) >= 1
    /\ \E i, k \in 1..Len(jobs) :
          /\ jobs[i].status = "completed"
          /\ jobs[i].completed_at # NULL
          /\ jobs[k].status = "pending"
          /\ jobs[k].completed_at = NULL

\* C29: every job the orchestrator queues leaves the pending state: once the
\* run that queued it has reached the end of its orchestrator path (records
\* inserted, no record found, or an exception while tagging or inserting), the
\* job is no longer pending.
C29_QueuedJobLeavesPending ==
    \A r \in RunIds :
        (Finished(r) /\ run[r].job_id # NULL) => StatusOf(run[r].job_id) # "pending"

\* C25: each network request of an adapter run, the first one included, is
\* preceded by a politeness delay; in the browser adapter no driver.get of a
\* scrape() call goes out without a sleep before it.
C25_DelayBeforeEachRequest ==
    ebay.undelayed = 0

\* C23: at every moment the number of adapter invocations running at once is
\* at most the pool size (3 for the browser jobs, min(4, cpu count) for the
\* static page workers), no invocation runs on two workers, and a worker that
\* is running an invocation takes no other one until that one has ended.
C23_BoundedPool ==
    /\ [](/\ pool.kind = "ebay" => Cardinality(Busy(pool)) <= 3
          /\ pool.kind = "static" =>
                 /\ Cardinality(Busy(pool)) <= 4
                 /\ Cardinality(Busy(pool)) <= pool.cpu_count
          /\ \A v, w \in Busy(pool) : pool.workers[v] = pool.workers[w] => v = w)
    /\ [][\A w \in Busy(pool) :
             (w \in DOMAIN pool'.workers /\ pool'.workers[w] # pool.workers[w]) =>
                 /\ pool'.workers[w] = 0
                 /\ pool.workers[w] \in pool'.done
         ]_vars

\* C23 witness: the static pool of a machine with more than four processors
\* has four page workers running while a fifth page waits for a free worker.
C23_Witness ==
    /\ pool.kind = "static"
    /\ pool.cpu_count > 4
    /\ Cardinality(Busy(pool)) = 4
    /\ pool.taken < pool.tasks

\* C24: every log record a worker process produces reaches a log file only
\* through the shared log_queue and its one listener: no worker process has
\* written to a log file itself.
C24_WorkersLogThroughQueue ==
    \A f \in LogFiles : logging.files[f].workers = {}

\* C21: an adapter invocation does not depend on earlier ones: whenever a
\* run_scraper call on the managed-crawl adapter has ended, the first or a
\* later one, its crawl has run (nothing left behind by an earlier call
\* prevented it) and what it returned holds only items emitted during it.
C21_InvocationsIndependent ==
    (crawler.pc = "idle" /\ crawler.calls >= 1) =>
        /\ crawler.engine_ran
        /\ crawler.returned \in {<<>>, crawler.emitted}

\* C26: in the managed-crawl adapter a request that keeps getting a retryable
\* status (5xx, 408, 429, 403) is sent at most 1 + RETRY_TIMES times; a
\* retryable status before that re-queues the request, the one after the last
\* retry abandons the page without touching the other requests or the items,
\* and the crawl comes to its end.
C26_BoundedRetries ==
    /\ [](\A request \in crawler.pending : request.retry_times + 1 <= 1 + RETRY_TIMES)
    /\ [][\A request \in crawler.pending, response \in Responses :
             (/\ EngineDownload(request, response)
              /\ response.status \in {500, 502, 503, 504, 408, 429, 403}) =>
                 /\ crawler'.emitted = crawler.emitted
                 /\ crawler'.items_file = crawler.items_file
                 /\ IF request.retry_times < RETRY_TIMES
                    THEN /\ crawler'.pending =
                               (crawler.pending \ {request})
                                   \cup {[request EXCEPT !.retry_times = @ + 1]}
                         /\ crawler'.abandoned = crawler.abandoned
                    ELSE /\ crawler'.pending = crawler.pending \ {request}
                         /\ crawler'.abandoned = crawler.abandoned + 1
         ]_vars
    /\ (crawler.pc = "crawling") ~> (crawler.pc = "stopped")

\* C26 witness: a crawl has ended in which one request was abandoned after
\* its last retry, and the other requests went on to yield items.
C26_Witness ==
    /\ crawler.pc = "stopped"
    /\ crawler.abandoned = 1
    /\ crawler.sent >= 1 + RETRY_TIMES + 2
    /\ crawler.emitted # <<>>

\* C27: in the managed-crawl adapter the temp file is read by the runner only
\* after the crawl engine has stopped, and the records the runner passes to
\* insert_products are the items the spider emitted during that run, in the
\* order of emission, each once, none lost and none left from an earlier run.
C27_SinkReadAfterStop ==
    /\ [](crawler.pc \in {"crawling", "stopped"} =>
              crawler.items_file = File(crawler.emitted))
    /\ []((crawler.pc = "idle" /\ crawler.exit = "items") =>
              /\ crawler.emitted # <<>>
              /\ crawler.scraped_items = crawler.emitted
              /\ crawler.inserted = ProductsForDb(crawler.emitted))
    /\ []((crawler.pc = "idle" /\ crawler.exit = "empty") =>
              (crawler.emitted = <<>> /\ crawler.inserted = <<>>))
    /\ [][(crawler'.scraped_items # crawler.scraped_items
              \/ crawler'.inserted # crawler.inserted) =>
             \/ /\ crawler.pc = "stopped"
                /\ crawler.reactor = "stopped"
                /\ crawler.pending = {}
             \/ /\ crawler.pc = "idle"
                /\ crawler'.scraped_items = <<>>
                /\ crawler'.inserted = <<>>
         ]_vars

\* C27 witness: a run has handed three items of two pages to insert_products,
\* a Gadget after a Widget.
C27_Witness ==
    /\ crawler.pc = "idle"
    /\ crawler.exit = "items"
    /\ Len(crawler.inserted) = 3
    /\ crawler.inserted[1].name = "Widget"
    /\ crawler.inserted[2].name = "Gadget"
    /\ crawler.sent >= 2

====
